---- MODULE Spec2Model ----
(***************************************************************************)
(* A model of paster (src/main.rs): the `paste` subcommand that            *)
(* materialises the clipboard content into a destination directory and the *)
(* `date` subcommand.  One run of the program is one behaviour; `pc` is    *)
(* the position of the run in main/paste/handle_*.                         *)
(*                                                                         *)
(* Strings are sequences of one-character strings.  Numbers that can       *)
(* exceed the range of the model checker's integers (usize, u32 values)    *)
(* are little-endian sequences of base-256 digits without leading zeros.   *)
(***************************************************************************)
EXTENDS Integers, Sequences, FiniteSets, TLC

\* Option<T>: None is the empty sequence, Some(x) the sequence of x alone
None == <<>>
Some(x) == <<x>>
IsSome(o) == o # <<>>
Unwrap(o) == o[1]

-----------------------------------------------------------------------------
(* Bounds of the model *)

\* longest clipboard file list
MaxFiles == 3
\* last value of the millisecond clock
MaxClock == 2
\* longest clipboard text
MaxTextLen == 3
\* largest "ordinary" image dimension
MaxDim == 2
\* largest image buffer length
MaxLen == 9
\* last day (days since 1970-01-01) the date subcommand is run on
MaxDay == 15

-----------------------------------------------------------------------------
(* Exact arithmetic on base-256 digit sequences *)

RECURSIVE Norm(_)
Norm(s) ==
    IF s = <<>> THEN <<>>
    ELSE IF s[Len(s)] = 0 THEN Norm(SubSeq(s, 1, Len(s) - 1)) ELSE s

RECURSIVE BigOfNat(_)
BigOfNat(n) == IF n = 0 THEN <<>> ELSE <<n % 256>> \o BigOfNat(n \div 256)

RECURSIVE BigAdd(_, _, _)
BigAdd(a, b, c) ==
    IF a = <<>> /\ b = <<>> THEN BigOfNat(c)
    ELSE LET x == IF a = <<>> THEN 0 ELSE Head(a)
             y == IF b = <<>> THEN 0 ELSE Head(b)
             s == x + y + c
         IN  <<s % 256>> \o BigAdd(IF a = <<>> THEN <<>> ELSE Tail(a),
                                   IF b = <<>> THEN <<>> ELSE Tail(b),
                                   s \div 256)

RECURSIVE BigMulDigit(_, _, _)
BigMulDigit(a, d, c) ==
    IF a = <<>> THEN BigOfNat(c)
    ELSE LET p == Head(a) * d + c
         IN  <<p % 256>> \o BigMulDigit(Tail(a), d, p \div 256)

RECURSIVE BigMul(_, _)
BigMul(a, b) ==
    IF b = <<>> THEN <<>>
    ELSE Norm(BigAdd(BigMulDigit(a, Head(b), 0), <<0>> \o BigMul(a, Tail(b)), 0))

RECURSIVE BigLeq(_, _)
BigLeq(a, b) ==
    IF Len(a) # Len(b) THEN Len(a) < Len(b)
    ELSE IF a = <<>> THEN TRUE
    ELSE IF a[Len(a)] # b[Len(b)] THEN a[Len(a)] < b[Len(b)]
    ELSE BigLeq(Norm(SubSeq(a, 1, Len(a) - 1)), Norm(SubSeq(b, 1, Len(b) - 1)))

\* the low `bytes` bytes of a number: an `as` cast to a narrower unsigned type
Truncate(a, bytes) ==
    Norm(SubSeq(a, 1, IF Len(a) < bytes THEN Len(a) ELSE bytes))

U32Bytes == 4
UsizeBytes == 8

AsU32(a) == Truncate(a, U32Bytes)

Four == <<4>>

\* u32 multiplication as a release build performs it (wrapping)
WrappingMulU32(a, b) == Truncate(BigMul(a, b), U32Bytes)
\* TRUE iff the u32 product does not fit (a debug build panics there)
OverflowsU32(a, b) == Len(BigMul(a, b)) > U32Bytes

\* usize::checked_mul
CheckedMulUsize(a, b) ==
    IF Len(BigMul(a, b)) > UsizeBytes THEN None ELSE Some(BigMul(a, b))

-----------------------------------------------------------------------------
(* std::path::Path, on a path of one component (no separator) *)

Dot == "."
DotDot == <<".", ".">>

RECURSIVE LastIndexOf(_, _)
\* the position of the last occurrence of c in s, 0 if there is none
LastIndexOf(s, c) ==
    IF s = <<>> THEN 0
    ELSE IF s[Len(s)] = c THEN Len(s)
    ELSE LastIndexOf(SubSeq(s, 1, Len(s) - 1), c)

\* Path::file_name: None when the path ends in `..` (or has no component)
file_name(p) == IF p = <<>> \/ p = DotDot \/ p = <<Dot>> THEN None ELSE Some(p)

\* the pair (before, after) std computes by splitting at the last dot
rsplit_file_at_dot(name) ==
    LET i == LastIndexOf(name, Dot)
        before == IF i = 0 THEN None ELSE Some(SubSeq(name, 1, i - 1))
        after == Some(SubSeq(name, i + 1, Len(name)))
    IN  IF name = DotDot \/ before = Some(<<>>)
        THEN [before |-> Some(name), after |-> None]
        ELSE [before |-> before, after |-> after]

\* Path::file_stem: before.or(after)
file_stem(p) ==
    IF file_name(p) = None THEN None
    ELSE LET r == rsplit_file_at_dot(Unwrap(file_name(p)))
         IN  IF IsSome(r.before) THEN r.before ELSE r.after

\* Path::extension: before.and(after)
extension(p) ==
    IF file_name(p) = None THEN None
    ELSE LET r == rsplit_file_at_dot(Unwrap(file_name(p)))
         IN  IF IsSome(r.before) THEN r.after ELSE None

\* char::to_lowercase on the letters of the model's alphabet
to_lowercase_char(c) ==
    CASE c = "P" -> "p"
      [] c = "N" -> "n"
      [] c = "G" -> "g"
      [] OTHER -> c

to_lowercase(s) == [i \in 1..Len(s) |-> to_lowercase_char(s[i])]

ImageExtensions ==
    { <<"j", "p", "g">>, <<"j", "p", "e", "g">>, <<"p", "n", "g">>,
      <<"g", "i", "f">>, <<"b", "m", "p">>, <<"t", "i", "f", "f">>,
      <<"w", "e", "b", "p">> }

is_image_file(file_path) ==
    IF IsSome(extension(file_path))
    THEN to_lowercase(Unwrap(extension(file_path))) \in ImageExtensions
    ELSE FALSE

\* str::replace(" ", "_")
replace_space(s) == [i \in 1..Len(s) |-> IF s[i] = " " THEN "_" ELSE s[i]]

-----------------------------------------------------------------------------
(* Text *)

\* char::is_whitespace on the model's alphabet
is_whitespace(c) == c \in {" ", "\n", "\t"}

RECURSIVE trim_start(_)
trim_start(s) ==
    IF s # <<>> /\ is_whitespace(Head(s)) THEN trim_start(Tail(s)) ELSE s

RECURSIVE trim_end(_)
trim_end(s) ==
    IF s # <<>> /\ is_whitespace(s[Len(s)])
    THEN trim_end(SubSeq(s, 1, Len(s) - 1)) ELSE s

trim(s) == trim_end(trim_start(s))

is_empty(s) == Len(s) = 0

-----------------------------------------------------------------------------
(* timestamp(): the clock value formatted; the format is injective *)

Digits == <<"0", "1", "2", "3", "4", "5", "6", "7", "8", "9">>

format_timestamp(t) == <<Digits[(t \div 10) + 1], Digits[(t % 10) + 1]>>

\* a variant: the name without its timestamp
new_file_name_unstamped(filename, t, ext) == filename \o <<Dot>> \o ext

\* format!("{}_{}.{}", filename, timestamp(), extension)
new_file_name(filename, t, ext) ==
    filename \o <<"_">> \o format_timestamp(t) \o <<Dot>> \o ext

\* format!("img_{}.png", timestamp())
new_image_name(t) ==
    <<"i", "m", "g", "_">> \o format_timestamp(t) \o <<Dot, "p", "n", "g">>

\* dest_dir.as_ref().join(&new_filename), dest_dir written D
DestDir == <<"D">>
join(dir, name) == dir \o <<"/">> \o name

\* the line "{emark}[{filename}]({dest_path})"
link_line(emark, filename, dest_path) ==
    emark \o <<"[">> \o filename \o <<"]", "(">> \o dest_path \o <<")">>

\* the grave accent (U+0060), which a TLA+ string cannot hold
Backtick == "U+0060"
Fence == <<Backtick, Backtick, Backtick>>

-----------------------------------------------------------------------------
(* chrono: a date is its number of days since 1970-01-01, a Thursday *)

\* Weekday::num_days_from_monday of NaiveDate::weekday
num_days_from_monday(day) == (day + 3) % 7

\* a variant: the Monday of today when today is a Monday
next_monday_or_today(today) == today + ((7 - num_days_from_monday(today)) % 7)

\* today + chrono::Duration::days(7 - days_since_monday)
next_monday(today) == today + (7 - num_days_from_monday(today))

\* DelayedFormat rendering of a date; injective on the days of the model
format_date(day) == format_timestamp(day)

-----------------------------------------------------------------------------
(* Inputs *)

WhatTypes == {"yesterday", "today", "tomorrow", "next-week"}

Kinds == {"file_list", "image", "text"}

\* the paths a clipboard file list is made of
Paths ==
    { DotDot,
      <<"a", " ", "b", ".", "t">>,
      <<"a", "_", "b", ".", "t">>,
      <<"a", ".", "P", "N", "G">>,
      <<"a", "b">>,
      <<".", "r", "c">> }

FileLists == UNION { [1..n -> Paths] : n \in 0..MaxFiles }

TextChars == {"a", " ", "\n"}

Texts == UNION { [1..n -> TextChars] : n \in 0..MaxTextLen }

\* 2^30 and 2^32 + 1
BigDims == { <<0, 0, 0, 64>>, <<1, 0, 0, 0, 1>> }

Dims == { BigOfNat(n) : n \in 0..MaxDim } \cup BigDims

\* arboard::ImageData, its buffer by its length
Images == [width : Dims, height : Dims, len : 0..MaxLen]

-----------------------------------------------------------------------------
(* State *)

VARIABLES
    command,        \* the subcommand of the command line
    workDir,        \* paste: Option of the --cd argument
    when,           \* date: the WhatTypes argument
    utcToday,       \* date: the day chrono::Utc::now() falls on
    localToday,     \* date: the day chrono::Local::now() falls on
    pc,             \* position of the run
    err,            \* the error the run ended with, "Ok" if none
    exitCode,       \* the exit code, -1 while the program runs
    cwd,            \* the current directory of the process
    chdirCalls,     \* number of set_current_dir calls
    clipboardOpen,  \* Clipboard::new() returned Ok
    avail,          \* the kinds of content the clipboard holds
    queries,        \* the clipboard queries made, in order
    handlers,       \* the handlers called, in order
    fileList,       \* handle_file_list: its file_list argument
    idx,            \* handle_file_list: position of the loop in file_list
    cur,            \* the names computed for the item being written
    stamps,         \* the timestamp() results, in order
    image,          \* handle_image_data: Option of its image_data argument
    content,        \* paste: Option of the text read from the clipboard
    now,            \* the millisecond clock
    destDirExists,  \* the destination directory exists
    mkdirCalls,     \* number of create_dir_all calls
    files,          \* the files written under the destination directory
    stdout          \* the lines printed, in order

inputs == <<command, workDir, when, utcToday, localToday>>
ctl == <<pc, err, exitCode>>
proc == <<cwd, chdirCalls>>
clip == <<clipboardOpen, avail, queries, handlers>>
loopv == <<fileList, idx>>
item == <<cur, stamps, now>>
data == <<image, content>>
fs == <<destDirExists, mkdirCalls, files>>

vars == <<inputs, ctl, proc, clip, loopv, item, data, fs, stdout>>

NoItem == [emark |-> <<>>, filename |-> <<>>, new_filename |-> <<>>, dest_path |-> <<>>]

InitCommon ==
    /\ pc = "main"
    /\ err = "Ok"
    /\ exitCode = -1
    /\ cwd = "orig"
    /\ chdirCalls = 0
    /\ clipboardOpen = FALSE
    /\ queries = <<>>
    /\ handlers = <<>>
    /\ fileList = <<>>
    /\ idx = 1
    /\ cur = NoItem
    /\ stamps = <<>>
    /\ image = None
    /\ content = None
    /\ now = 0
    /\ mkdirCalls = 0
    /\ files = {}
    /\ stdout = <<>>

InitPaste ==
    /\ command = "paste"
    /\ workDir \in {None, Some("work")}
    /\ avail \in [Kinds -> BOOLEAN]
    /\ destDirExists \in BOOLEAN
    /\ when = "today"
    /\ utcToday = 1
    /\ localToday = 1

InitDate ==
    /\ command = "date"
    /\ when \in WhatTypes
    /\ utcToday \in 1..MaxDay
    /\ localToday \in {utcToday - 1, utcToday, utcToday + 1}
    /\ workDir = None
    /\ avail = [k \in Kinds |-> FALSE]
    /\ destDirExists = FALSE

Init == InitCommon /\ (InitPaste \/ InitDate)

\* main returns: Ok is exit code 0, Err is exit code 1, a panic is 101
Return(e, code) ==
    /\ pc' = "done"
    /\ err' = e
    /\ exitCode' = code

Goto(l) ==
    /\ pc' = l
    /\ UNCHANGED <<err, exitCode>>

\* a write to `name`: std::fs::copy and File::create replace an existing file
WriteFile(dir, name, src) ==
    {f \in dir : f.name # name} \cup {[name |-> name, src |-> src]}

\* timestamp() reads a clock that does not run backwards
Timestamp(t) == t \in now..MaxClock

-----------------------------------------------------------------------------
(* paste: lines 156-181 *)

paste_no_work_dir ==
    /\ pc = "main" /\ command = "paste"
    /\ workDir = None
    /\ Goto("open")
    /\ UNCHANGED <<inputs, proc, clip, loopv, item, data, fs, stdout>>

paste_set_current_dir_ok ==
    /\ pc = "main" /\ command = "paste"
    /\ IsSome(workDir)
    /\ cwd' = Unwrap(workDir)
    /\ chdirCalls' = chdirCalls + 1
    /\ Goto("open")
    /\ UNCHANGED <<inputs, clip, loopv, item, data, fs, stdout>>

\* a variant: the result of set_current_dir is dropped
paste_set_current_dir_err_ignored ==
    /\ pc = "main" /\ command = "paste"
    /\ IsSome(workDir)
    /\ chdirCalls' = chdirCalls + 1
    /\ Goto("open")
    /\ UNCHANGED <<inputs, cwd, clip, loopv, item, data, fs, stdout>>

paste_set_current_dir_err ==
    /\ pc = "main" /\ command = "paste"
    /\ IsSome(workDir)
    /\ chdirCalls' = chdirCalls + 1
    /\ Return("SetCurrentDir", 1)
    /\ UNCHANGED <<inputs, cwd, clip, loopv, item, data, fs, stdout>>

clipboard_new_ok ==
    /\ pc = "open"
    /\ clipboardOpen' = TRUE
    /\ Goto("get_file_list")
    /\ UNCHANGED <<inputs, proc, avail, queries, handlers, loopv, item, data, fs, stdout>>

clipboard_new_err ==
    /\ pc = "open"
    /\ Return("ClipboardUnavailable", 1)
    /\ UNCHANGED <<inputs, proc, clip, loopv, item, data, fs, stdout>>

\* if let Ok(file_list) = ctx.get().file_list() { handle_file_list(..)
get_file_list_ok ==
    /\ pc = "get_file_list"
    /\ avail["file_list"]
    /\ \E l \in FileLists : fileList' = l
    /\ idx' = 1
    /\ queries' = Append(queries, "file_list")
    /\ handlers' = Append(handlers, "handle_file_list")
    /\ Goto("file_loop")
    /\ UNCHANGED <<inputs, proc, clipboardOpen, avail, item, data, fs, stdout>>

get_file_list_err ==
    /\ pc = "get_file_list"
    /\ ~avail["file_list"]
    /\ queries' = Append(queries, "file_list")
    /\ Goto("get_image")
    /\ UNCHANGED <<inputs, proc, clipboardOpen, avail, handlers, loopv, item, data, fs, stdout>>

\* if let Ok(image) = ctx.get_image() { handle_image_data(..)
get_image_ok ==
    /\ pc = "get_image"
    /\ avail["image"]
    /\ \E i \in Images : image' = Some(i)
    /\ queries' = Append(queries, "image")
    /\ handlers' = Append(handlers, "handle_image_data")
    /\ Goto("image_check")
    /\ UNCHANGED <<inputs, proc, clipboardOpen, avail, loopv, item, content, fs, stdout>>

get_image_err ==
    /\ pc = "get_image"
    /\ ~avail["image"]
    /\ queries' = Append(queries, "image")
    /\ Goto("get_text")
    /\ UNCHANGED <<inputs, proc, clipboardOpen, avail, handlers, loopv, item, data, fs, stdout>>

\* let content = ctx.get_text()?;
get_text_ok ==
    /\ pc = "get_text"
    /\ avail["text"]
    /\ \E t \in Texts : content' = Some(t)
    /\ queries' = Append(queries, "text")
    /\ Goto("text_check")
    /\ UNCHANGED <<inputs, proc, clipboardOpen, avail, handlers, loopv, item, image, fs, stdout>>

get_text_err ==
    /\ pc = "get_text"
    /\ ~avail["text"]
    /\ queries' = Append(queries, "text")
    /\ Return("GetText", 1)
    /\ UNCHANGED <<inputs, proc, clipboardOpen, avail, handlers, loopv, item, data, fs, stdout>>

\* a variant: content.is_empty(), without the trim
is_blank_untrimmed(text) == is_empty(text)

\* content.trim().is_empty()
is_blank(text) == is_empty(trim(text))

text_blank ==
    /\ pc = "text_check"
    /\ is_blank(Unwrap(content))
    /\ Return("Ok", 0)
    /\ UNCHANGED <<inputs, proc, clip, loopv, item, data, fs, stdout>>

\* handle_text(content): lines 150-154
handle_text ==
    /\ pc = "text_check"
    /\ ~is_blank(Unwrap(content))
    /\ handlers' = Append(handlers, "handle_text")
    /\ stdout' = stdout \o <<Fence, Unwrap(content), Fence>>
    /\ Return("Ok", 0)
    /\ UNCHANGED <<inputs, proc, clipboardOpen, avail, queries, loopv, item, data, fs>>

-----------------------------------------------------------------------------
(* handle_file_list: lines 98-120, one loop iteration in four steps *)

InLoop == pc = "file_loop" /\ idx <= Len(fileList)

\* a variant: an empty file list counts as a failed query
file_list_done_empty_falls_through ==
    /\ pc = "file_loop"
    /\ idx > Len(fileList)
    /\ IF fileList = <<>>
       THEN Goto("get_image")
       ELSE Return("Ok", 0)
    /\ UNCHANGED <<inputs, proc, clip, loopv, item, data, fs, stdout>>

\* the loop is exhausted: Ok(()) at line 119, return Ok(()) at line 165
file_list_done ==
    /\ pc = "file_loop"
    /\ idx > Len(fileList)
    /\ Return("Ok", 0)
    /\ UNCHANGED <<inputs, proc, clip, loopv, item, data, fs, stdout>>

\* file.file_stem().with_context(..)? on None
file_entry_missing_filename ==
    /\ InLoop
    /\ file_stem(fileList[idx]) = None
    /\ Return("MissingFilename", 1)
    /\ UNCHANGED <<inputs, proc, clip, loopv, item, data, fs, stdout>>

\* a variant: create_dir_all hoisted above the validation of the entry
file_entry_missing_extension_after_mkdir ==
    /\ InLoop
    /\ IsSome(file_stem(fileList[idx]))
    /\ extension(fileList[idx]) = None
    /\ destDirExists' = TRUE
    /\ mkdirCalls' = mkdirCalls + 1
    /\ Return("MissingExtension", 1)
    /\ UNCHANGED <<inputs, proc, clip, loopv, item, data, files, stdout>>

\* file.extension().with_context(..)? on None
file_entry_missing_extension ==
    /\ InLoop
    /\ IsSome(file_stem(fileList[idx]))
    /\ extension(fileList[idx]) = None
    /\ Return("MissingExtension", 1)
    /\ UNCHANGED <<inputs, proc, clip, loopv, item, data, fs, stdout>>

\* lines 100-110 and 112: emark, filename, extension, new_filename, dest_path
file_item(file, t) ==
    LET filename == replace_space(Unwrap(file_stem(file)))
        new_filename == new_file_name(filename, t, Unwrap(extension(file)))
    IN  [emark |-> IF is_image_file(file) THEN <<"!">> ELSE <<>>,
         filename |-> filename,
         new_filename |-> new_filename,
         dest_path |-> join(DestDir, new_filename)]

file_entry_named ==
    /\ InLoop
    /\ IsSome(file_stem(fileList[idx]))
    /\ IsSome(extension(fileList[idx]))
    /\ \E t \in 0..MaxClock :
        /\ Timestamp(t)
        /\ now' = t
        /\ stamps' = Append(stamps, t)
        /\ cur' = file_item(fileList[idx], t)
    /\ Goto("file_mkdir")
    /\ UNCHANGED <<inputs, proc, clip, loopv, data, fs, stdout>>

\* std::fs::create_dir_all(&dest_dir)?
file_create_dir_ok ==
    /\ pc = "file_mkdir"
    /\ destDirExists' = TRUE
    /\ mkdirCalls' = mkdirCalls + 1
    /\ Goto("file_copy")
    /\ UNCHANGED <<inputs, proc, clip, loopv, item, data, files, stdout>>

file_create_dir_err ==
    /\ pc = "file_mkdir"
    /\ ~destDirExists
    /\ mkdirCalls' = mkdirCalls + 1
    /\ Return("CreateDir", 1)
    /\ UNCHANGED <<inputs, proc, clip, loopv, item, data, destDirExists, files, stdout>>

\* std::fs::copy(file, &dest_path): into an existing directory only
file_copy_ok ==
    /\ pc = "file_copy"
    /\ destDirExists
    /\ files' = WriteFile(files, cur.new_filename, idx)
    /\ Goto("file_print")
    /\ UNCHANGED <<inputs, proc, clip, loopv, item, data, destDirExists, mkdirCalls, stdout>>

\* a variant: the line is printed before the copy is attempted
file_copy_err_after_println ==
    /\ pc = "file_copy"
    /\ stdout' = Append(stdout, link_line(cur.emark, cur.filename, cur.dest_path))
    /\ Return("CopyFailed", 1)
    /\ UNCHANGED <<inputs, proc, clip, loopv, item, data, fs>>

\* .with_context(|| "can't copy file")?
file_copy_err ==
    /\ pc = "file_copy"
    /\ Return("CopyFailed", 1)
    /\ UNCHANGED <<inputs, proc, clip, loopv, item, data, fs, stdout>>

\* println!("{emark}[{filename}]({})", ..) and the next iteration
file_println ==
    /\ pc = "file_print"
    /\ stdout' = Append(stdout, link_line(cur.emark, cur.filename, cur.dest_path))
    /\ idx' = idx + 1
    /\ cur' = NoItem
    /\ Goto("file_loop")
    /\ UNCHANGED <<inputs, proc, clip, fileList, stamps, now, data, fs>>

-----------------------------------------------------------------------------
(* handle_image_data: lines 122-148 *)

\* image_data.width as u32, image_data.height as u32
width == AsU32(Unwrap(image).width)
height == AsU32(Unwrap(image).height)

\* (width * height * 4) as usize, on a build without overflow checks
expected_len == WrappingMulU32(WrappingMulU32(width, height), Four)

\* width * height * 4 leaves the range of u32
length_overflows ==
    \/ OverflowsU32(width, height)
    \/ OverflowsU32(WrappingMulU32(width, height), Four)

\* a build with overflow checks (debug) panics on the multiplication
image_length_panic ==
    /\ pc = "image_check"
    /\ length_overflows
    /\ Return("Panic", 101)
    /\ UNCHANGED <<inputs, proc, clip, loopv, item, data, fs, stdout>>

\* a variant: a failed handler lets paste go on to the next kind
image_length_mismatch_falls_through ==
    /\ pc = "image_check"
    /\ BigOfNat(Unwrap(image).len) # expected_len
    /\ Goto("get_text")
    /\ UNCHANGED <<inputs, proc, clip, loopv, item, data, fs, stdout>>

\* bail!("Error: Invalid image data length")
image_length_mismatch ==
    /\ pc = "image_check"
    /\ BigOfNat(Unwrap(image).len) # expected_len
    /\ Return("InvalidImageBuffer", 1)
    /\ UNCHANGED <<inputs, proc, clip, loopv, item, data, fs, stdout>>

image_length_ok ==
    /\ pc = "image_check"
    /\ BigOfNat(Unwrap(image).len) = expected_len
    /\ Goto("image_from_raw")
    /\ UNCHANGED <<inputs, proc, clip, loopv, item, data, fs, stdout>>

\* ImageBuffer::check_image_fits: 4 * width * height, checked in usize, <= len
check_image_fits(w, h, len) ==
    LET a == CheckedMulUsize(Four, w)
        min_len == IF IsSome(a) THEN CheckedMulUsize(Unwrap(a), h) ELSE None
    IN  IsSome(min_len) /\ BigLeq(Unwrap(min_len), len)

\* RgbaImage::from_raw(..) is None: bail!("Error: Could not create image ..")
image_from_raw_none ==
    /\ pc = "image_from_raw"
    /\ ~check_image_fits(width, height, BigOfNat(Unwrap(image).len))
    /\ Return("ImageDecodeFailed", 1)
    /\ UNCHANGED <<inputs, proc, clip, loopv, item, data, fs, stdout>>

\* lines 139 and 141: new_filename, dest_path
image_item(t) ==
    [emark |-> <<"!">>,
     filename |-> <<>>,
     new_filename |-> new_image_name(t),
     dest_path |-> join(DestDir, new_image_name(t))]

image_from_raw_some ==
    /\ pc = "image_from_raw"
    /\ check_image_fits(width, height, BigOfNat(Unwrap(image).len))
    /\ \E t \in 0..MaxClock :
        /\ Timestamp(t)
        /\ now' = t
        /\ stamps' = Append(stamps, t)
        /\ cur' = image_item(t)
    /\ Goto("image_mkdir")
    /\ UNCHANGED <<inputs, proc, clip, loopv, data, fs, stdout>>

image_create_dir_ok ==
    /\ pc = "image_mkdir"
    /\ destDirExists' = TRUE
    /\ mkdirCalls' = mkdirCalls + 1
    /\ Goto("image_save")
    /\ UNCHANGED <<inputs, proc, clip, loopv, item, data, files, stdout>>

image_create_dir_err ==
    /\ pc = "image_mkdir"
    /\ ~destDirExists
    /\ mkdirCalls' = mkdirCalls + 1
    /\ Return("CreateDir", 1)
    /\ UNCHANGED <<inputs, proc, clip, loopv, item, data, destDirExists, files, stdout>>

\* img.save_with_format(&dest_path, ImageFormat::Png)
image_save_ok ==
    /\ pc = "image_save"
    /\ destDirExists
    /\ files' = WriteFile(files, cur.new_filename, 0)
    /\ Goto("image_print")
    /\ UNCHANGED <<inputs, proc, clip, loopv, item, data, destDirExists, mkdirCalls, stdout>>

image_save_err ==
    /\ pc = "image_save"
    /\ Return("EncodeFailed", 1)
    /\ UNCHANGED <<inputs, proc, clip, loopv, item, data, fs, stdout>>

\* println!("![]({})", ..); Ok(())
image_println ==
    /\ pc = "image_print"
    /\ stdout' = Append(stdout, link_line(cur.emark, cur.filename, cur.dest_path))
    /\ Return("Ok", 0)
    /\ UNCHANGED <<inputs, proc, clip, loopv, item, data, fs>>

-----------------------------------------------------------------------------
(* date: lines 56-78 *)

print_date(day) ==
    /\ stdout' = Append(stdout, format_date(day))
    /\ Return("Ok", 0)
    /\ UNCHANGED <<inputs, proc, clip, loopv, item, data, fs>>

date_yesterday ==
    /\ pc = "main" /\ command = "date" /\ when = "yesterday"
    /\ print_date(utcToday - 1)

date_today ==
    /\ pc = "main" /\ command = "date" /\ when = "today"
    /\ print_date(utcToday)

date_tomorrow ==
    /\ pc = "main" /\ command = "date" /\ when = "tomorrow"
    /\ print_date(utcToday + 1)

date_next_week ==
    /\ pc = "main" /\ command = "date" /\ when = "next-week"
    /\ print_date(next_monday(localToday))

-----------------------------------------------------------------------------

Next ==
    \/ paste_no_work_dir
    \/ paste_set_current_dir_ok
    \/ paste_set_current_dir_err
    \/ clipboard_new_ok
    \/ clipboard_new_err
    \/ get_file_list_ok
    \/ get_file_list_err
    \/ file_list_done
    \/ file_entry_missing_filename
    \/ file_entry_missing_extension
    \/ file_entry_named
    \/ file_create_dir_ok
    \/ file_create_dir_err
    \/ file_copy_ok
    \/ file_copy_err
    \/ file_println
    \/ get_image_ok
    \/ get_image_err
    \/ image_length_panic
    \/ image_length_mismatch
    \/ image_length_ok
    \/ image_from_raw_none
    \/ image_from_raw_some
    \/ image_create_dir_ok
    \/ image_create_dir_err
    \/ image_save_ok
    \/ image_save_err
    \/ image_println
    \/ get_text_ok
    \/ get_text_err
    \/ text_blank
    \/ handle_text
    \/ date_yesterday
    \/ date_today
    \/ date_tomorrow
    \/ date_next_week

Spec == Init /\ [][Next]_vars

-----------------------------------------------------------------------------
(* Properties *)

Range(q) == { q[i] : i \in DOMAIN q }

KindOrder == <<"file_list", "image", "text">>

Ran(h) == h \in Range(handlers)

Done == pc = "done"

\* C1: the clipboard kinds are queried in the order file list, image, text,
\* and at most one handler is called: handle_file_list iff the file-list
\* query succeeded, handle_image_data iff the file-list query failed and the
\* image query succeeded, handle_text only if both failed; with a file list
\* and text on the clipboard only handle_file_list is called, and no query
\* follows the call of a handler, whether the handler fails or not.
DispatchPriority ==
    /\ Len(queries) <= 3
    /\ \A i \in 1..Len(queries) : queries[i] = KindOrder[i]
    /\ Len(handlers) <= 1
    /\ Ran("handle_file_list") <=> (Len(queries) >= 1 /\ avail["file_list"])
    /\ Ran("handle_image_data") <=>
          (Len(queries) >= 2 /\ ~avail["file_list"] /\ avail["image"])
    /\ Ran("handle_text") =>
          (Len(queries) = 3 /\ ~avail["file_list"] /\ ~avail["image"])
    /\ (avail["file_list"] /\ avail["text"]) =>
          (~Ran("handle_text") /\ ~Ran("handle_image_data") /\ Len(queries) <= 1)
    /\ Ran("handle_file_list") => queries = <<"file_list">>
    /\ Ran("handle_image_data") => queries = <<"file_list", "image">>

\* a run on a clipboard with a file list, an image and text whose file-list
\* handler failed: the run is over and neither lower kind was queried
DispatchPriorityWitness ==
    /\ Done
    /\ avail["file_list"] /\ avail["image"] /\ avail["text"]
    /\ handlers = <<"handle_file_list">>
    /\ err = "CopyFailed"
    /\ queries = <<"file_list">>

\* C2: when the clipboard opens and the file-list, the image and the text
\* query all fail, paste exits with code 0, prints nothing and writes no file.
NoContentExitsOk ==
    (/\ Done
     /\ clipboardOpen
     /\ queries = KindOrder
     /\ \A k \in Kinds : ~avail[k])
    => (exitCode = 0 /\ stdout = <<>> /\ files = {})

AllWhitespace(text) == \A i \in 1..Len(text) : is_whitespace(text[i])

FileHandlerOk == Done /\ handlers = <<"handle_file_list">> /\ err = "Ok"

\* the entry at position i as handle_file_list names and prints it
EntryItem(i) == file_item(fileList[i], stamps[i])
EntryLine(i) ==
    link_line(EntryItem(i).emark, EntryItem(i).filename, EntryItem(i).dest_path)

\* every entry prints its own line, in input order
LinesInInputOrder ==
    /\ Len(stdout) = Len(fileList)
    /\ \A i \in 1..Len(fileList) : stdout[i] = EntryLine(i)

\* entries with the same extension and the same stem after the replacement
\* of spaces differ in their timestamps
DistinctStamps ==
    \A i, j \in 1..Len(fileList) :
        (/\ i < j
         /\ replace_space(Unwrap(file_stem(fileList[i])))
              = replace_space(Unwrap(file_stem(fileList[j])))
         /\ extension(fileList[i]) = extension(fileList[j]))
        => stamps[i] # stamps[j]

\* C4 as stated: a file list handled without error leaves one line per
\* entry, in input order, and as many files as the list has entries.
OneFilePerEntry ==
    FileHandlerOk =>
        (LinesInInputOrder /\ Cardinality(files) = Len(fileList))

\* C4 amended: a file list handled without error leaves one line per entry,
\* in input order, and every entry's file was written; the files are as
\* many as the entries, each holding its own entry, when no two entries
\* that agree in the extension and in the stem after the replacement of
\* spaces got the same timestamp.
OneFilePerEntryDistinctStamps ==
    FileHandlerOk =>
        /\ LinesInInputOrder
        /\ Len(stamps) = Len(fileList)
        /\ \A i \in 1..Len(fileList) :
              \E f \in files : f.name = EntryItem(i).new_filename
        /\ DistinctStamps =>
              /\ Cardinality(files) = Len(fileList)
              /\ \A i \in 1..Len(fileList) :
                    [name |-> EntryItem(i).new_filename, src |-> i] \in files

\* three entries of one stem after the replacement and one extension, each
\* in a millisecond of its own: three lines, three files
OneFilePerEntryWitness ==
    /\ FileHandlerOk
    /\ Len(fileList) = 3
    /\ \A i \in 1..3 : EntryItem(i).filename = <<"a", "_", "b">>
    /\ fileList[1] # fileList[2]
    /\ stamps[1] < stamps[2]
    /\ stamps[2] < stamps[3]
    /\ Len(stdout) = 3
    /\ Cardinality(files) = 3

FileHandlerFailed == Done /\ handlers = <<"handle_file_list">> /\ err # "Ok"

\* C5: when the entry at position N of the file list fails, the run ends
\* with a non-zero exit code at that entry: the lines printed are the N-1
\* lines of the entries before it, their files exist, and no file of the
\* entry N or of a later entry was written.
AbortAtFailedEntry ==
    FileHandlerFailed =>
        /\ exitCode # 0
        /\ idx \in 1..Len(fileList)
        /\ Len(stdout) = idx - 1
        /\ Len(stamps) \in {idx - 1, idx}
        /\ \A i \in 1..(idx - 1) :
              /\ stdout[i] = EntryLine(i)
              /\ \E f \in files : f.name = EntryItem(i).new_filename
        /\ \A f \in files : f.src < idx

\* the copy of the second of three entries failed
AbortAtFailedEntryWitness ==
    /\ FileHandlerFailed
    /\ err = "CopyFailed"
    /\ Len(fileList) = 3
    /\ idx = 2
    /\ Len(stdout) = 1
    /\ Cardinality(files) = 1

\* the product width*height*4 over the integers
ExactRgbaLen(w, h) == BigMul(BigMul(w, h), Four)

\* the buffer length differs from width*height*4 computed over the integers
LengthDiffers ==
    /\ IsSome(image)
    /\ BigOfNat(Unwrap(image).len)
         # ExactRgbaLen(Unwrap(image).width, Unwrap(image).height)

\* C6: an image whose buffer length differs from width*height*4 ends the
\* run with the invalid-image-buffer error, the destination directory not
\* created and no file written, whatever the size of the dimensions.
LengthMismatchRejected ==
    (Done /\ LengthDiffers) =>
        /\ err = "InvalidImageBuffer"
        /\ mkdirCalls = 0
        /\ files = {}

\* 1970-01-05, day 4, was a Monday
IsMonday(day) == day % 7 = 4
IsWednesday(day) == day % 7 = 6

\* C7: date next-week prints the day today + (7 - days_since_monday): a
\* Monday, after today and at most 7 days ahead; today + 7 on a Monday and
\* today + 5 on a Wednesday.
NextWeekIsNextMonday ==
    (Done /\ command = "date" /\ when = "next-week") =>
        \E d \in (localToday + 1)..(localToday + 7) :
            /\ stdout = <<format_date(d)>>
            /\ IsMonday(d)
            /\ d = localToday + (7 - num_days_from_monday(localToday))
            /\ IsMonday(localToday) => d = localToday + 7
            /\ IsWednesday(localToday) => d = localToday + 5

\* next-week was run on a Monday and printed the day a week later
NextWeekIsNextMondayWitness ==
    /\ Done
    /\ command = "date" /\ when = "next-week"
    /\ IsMonday(localToday)
    /\ stdout = <<format_date(localToday + 7)>>

\* C8: with a working directory given, the one set_current_dir call is
\* made before the clipboard is opened or queried and the directory stays
\* changed; when the call fails the run ends with an error, the clipboard
\* not opened, no handler called, nothing written and nothing printed.
WorkDirFirst ==
    /\ chdirCalls <= 1
    /\ (IsSome(workDir) /\ pc # "main" /\ err # "SetCurrentDir") =>
          (chdirCalls = 1 /\ cwd = Unwrap(workDir))
    /\ (workDir = None \/ pc = "main") => (chdirCalls = 0 /\ cwd = "orig")
    /\ pc = "main" => (~clipboardOpen /\ queries = <<>>)
    /\ err = "SetCurrentDir" =>
          /\ Done /\ exitCode # 0
          /\ cwd = "orig"
          /\ ~clipboardOpen /\ queries = <<>> /\ handlers = <<>>
          /\ mkdirCalls = 0 /\ files = {} /\ stdout = <<>>

\* a run with a working directory wrote a file: the directory is still the
\* working directory at the end
WorkDirFirstWitness ==
    /\ Done
    /\ IsSome(workDir)
    /\ cwd = "work"
    /\ clipboardOpen
    /\ files # {}
    /\ stdout # <<>>

ValidationErrors == {"MissingFilename", "MissingExtension", "InvalidImageBuffer"}

\* C9: a file is written only when the destination directory exists and
\* create_dir_all was called for the item being written; create_dir_all
\* is called, and the directory comes to exist, only for an item that
\* passed its validation, so that a run whose first item fails validation
\* has made no create_dir_all call.
DestDirEnsuredBeforeWrite ==
    /\ [](files # {} => (mkdirCalls >= 1 /\ destDirExists))
    /\ []((Done /\ err \in ValidationErrors /\ files = {}) => mkdirCalls = 0)
    /\ [][/\ files' # files =>
              (destDirExists /\ mkdirCalls = Len(stamps) /\ cur # NoItem)
          /\ mkdirCalls' # mkdirCalls =>
              (cur # NoItem /\ Len(stamps) = mkdirCalls + 1)
          /\ destDirExists' # destDirExists => mkdirCalls' = mkdirCalls + 1]_vars

\* the first entry was written into a directory the run created, the
\* second failed validation: one create_dir_all call
DestDirEnsuredBeforeWriteWitness ==
    /\ Done
    /\ err = "MissingExtension"
    /\ idx = 2
    /\ mkdirCalls = 1
    /\ destDirExists
    /\ Cardinality(files) = 1

\* C10: an empty file list returned by the file-list query ends the run
\* with success: nothing printed, no file written, no create_dir_all call,
\* and neither the image nor the text query made.
EmptyFileListIsSuccess ==
    (Ran("handle_file_list") /\ fileList = <<>>) =>
        /\ queries = <<"file_list">>
        /\ handlers = <<"handle_file_list">>
        /\ stdout = <<>> /\ files = {} /\ mkdirCalls = 0
        /\ image = None /\ content = None
        /\ Done => (err = "Ok" /\ exitCode = 0)

\* the run on an empty file list ended, with an image and text on the
\* clipboard
EmptyFileListIsSuccessWitness ==
    /\ Done
    /\ Ran("handle_file_list") /\ fileList = <<>>
    /\ avail["image"] /\ avail["text"]
    /\ exitCode = 0

====
